---------------------------- MODULE Spec2Model ----------------------------
(***************************************************************************)
(* The cashu wallet (cashu/wallet/wallet.py): LedgerAPI and Wallet.        *)
(*                                                                         *)
(* State: the wallet's in-memory proof list (self.proofs), the wallet      *)
(* database (the proofs table and the invalidated history behind           *)
(* cashu.wallet.crud), the clock behind uuid.uuid1(), and a record of the  *)
(* last completed call (its arguments, the requests it sent to the mint,   *)
(* what it returned or raised, and the state it started from).             *)
(*                                                                         *)
(* Strings are sequences of one-character strings; the mint is an oracle   *)
(* whose answers are drawn nondeterministically; a call of                 *)
(* _generate_secret draws a token never drawn before or one drawn by an    *)
(* earlier call, and so may draw a secret the store already holds.  The    *)
(* draws of one call are pairwise distinct.  Blinding (b_dhke) is not      *)
(* modelled: an output is its amount and its secret.                       *)
(***************************************************************************)
EXTENDS Integers, Sequences, FiniteSets, TLC

VARIABLES proofs, db, drawn, uuidClock, calls, last

vars == <<proofs, db, drawn, uuidClock, calls, last>>

(***************************************************************************)
(* Bounds of the model.                                                    *)
(***************************************************************************)
\* the wallet's balance never exceeds this (guard of Mint)
MaxBalance == 3
\* how many calls the caller makes
MaxCalls == 2
\* the largest amount _get_output_split is applied to on its own
MaxSplitAmount == 150
\* the largest n generate_secrets is applied to on its own
MaxSecrets == 3
\* the number of calls made in a run that takes a split one write at a time
MaxStepCalls == 3
\* the largest amount passed to mint, split, split_to_send
MaxAmount == MaxBalance

(***************************************************************************)
(* Sequences and strings.                                                  *)
(***************************************************************************)
Range(s) == {s[i] : i \in 1..Len(s)}

Reverse(s) == [i \in 1..Len(s) |-> s[Len(s) + 1 - i]]

RECURSIVE SumSeq(_)
SumSeq(s) == IF s = <<>> THEN 0 ELSE s[1] + SumSeq(Tail(s))

Amounts(ps) == [i \in 1..Len(ps) |-> ps[i].amount]

Secrets(ps) == [i \in 1..Len(ps) |-> ps[i].secret]

\* the injective sequences of length n over S: n draws, pairwise distinct
InjSeqs(S, n) ==
    {f \in [1..n -> S] : \A i, j \in 1..n : i # j => f[i] # f[j]}

\* the subsequence of s at the indices in I, in order
RECURSIVE Pick(_, _)
Pick(s, I) ==
    IF s = <<>> THEN <<>>
    ELSE LET rest == Pick(Tail(s), {i - 1 : i \in I \ {1}})
         IN IF 1 \in I THEN <<s[1]>> \o rest ELSE rest

(***************************************************************************)
(* LedgerAPI._get_output_split: bin(amount)[::-1][:-2], then 2**pos for    *)
(* every position holding "1".                                             *)
(***************************************************************************)
Bit(n) == IF n % 2 = 1 THEN "1" ELSE "0"

RECURSIVE BinDigits(_)
BinDigits(n) == IF n < 2 THEN <<Bit(n)>> ELSE BinDigits(n \div 2) \o <<Bit(n)>>

\* Python's bin(): "0b101", and "-0b101" for a negative number
bin(n) == IF n < 0 THEN <<"-", "0", "b">> \o BinDigits(-n)
          ELSE <<"0", "b">> \o BinDigits(n)

RECURSIVE BitsToAmounts(_, _)
BitsToAmounts(bits, pos) ==
    IF bits = <<>> THEN <<>>
    ELSE (IF bits[1] = "1" THEN <<2 ^ pos>> ELSE <<>>)
         \o BitsToAmounts(Tail(bits), pos + 1)

\* a faulty variant: the digits are not reversed
get_output_split_unreversed(amount) ==
    LET fwd      == bin(amount)
        bits_amt == SubSeq(fwd, 1, Len(fwd) - 2)
    IN BitsToAmounts(bits_amt, 0)

get_output_split(amount) ==
    LET rev      == Reverse(bin(amount))
        bits_amt == SubSeq(rev, 1, Len(rev) - 2)
    IN BitsToAmounts(bits_amt, 0)

\* cashu.core.split.amount_split: the binary decomposition (spec 4.2); the
\* same computation as _get_output_split
amount_split(amount) == get_output_split(amount)

(***************************************************************************)
(* Secrets.                                                                *)
(***************************************************************************)
\* the i-th value _generate_secret (secrets.token_urlsafe) returned
Token(i) == <<"t", ToString(i)>>

\* n draws of _generate_secret when d values were drawn before: each draw is
\* the next value never drawn, or one of the d drawn before, and the draws of
\* one call are pairwise distinct
Draws(d, n) ==
    {f \in InjSeqs(1..(d + n), n) :
        \A i \in 1..n :
            f[i] > d => f[i] = d + 1 + Cardinality({j \in 1..(i - 1) : f[j] > d})}

NumFresh(d, f) == Cardinality({i \in 1..Len(f) : f[i] > d})

TokensOf(f) == [i \in 1..Len(f) |-> Token(f[i])]

Marker == <<"P", "2", "S", "H", ":">>

\* len(secret.split("P2SH:")): one more than the number of occurrences of
\* the marker, scanned from the left without overlap
RECURSIVE SplitParts(_)
SplitParts(s) ==
    IF Len(s) < Len(Marker) THEN 1
    ELSE IF SubSeq(s, 1, Len(Marker)) = Marker
         THEN 1 + SplitParts(SubSeq(s, Len(Marker) + 1, Len(s)))
         ELSE SplitParts(Tail(s))

\* a faulty variant: one draw of _generate_secret serves every output
generate_secrets_one_draw(secret, n, toks) ==
    IF SplitParts(secret) = 2
    THEN [i \in 1..n |-> secret \o <<":">> \o toks[1]]
    ELSE [i \in 1..n |-> <<ToString(i - 1), ":">> \o secret]

\* LedgerAPI.generate_secrets; toks are the n draws of _generate_secret
generate_secrets(secret, n, toks) ==
    IF SplitParts(secret) = 2
    THEN [i \in 1..n |-> secret \o <<":">> \o toks[i]]
    ELSE [i \in 1..n |-> <<ToString(i - 1), ":">> \o secret]

(***************************************************************************)
(* Proofs.  send_id is a string: empty until a send id is stamped.         *)
(***************************************************************************)
Proof(amount, secret) ==
    [amount |-> amount, secret |-> secret, reserved |-> FALSE, send_id |-> <<>>]

\* LedgerAPI._construct_proofs: zip(promises, secrets); a promise is its amount
construct_proofs(promises, secrets) ==
    LET n == IF Len(promises) < Len(secrets) THEN Len(promises) ELSE Len(secrets)
    IN [i \in 1..n |-> Proof(promises[i], secrets[i])]

(***************************************************************************)
(* The store (cashu.wallet.crud), as spec 4.5 states it.  d is the         *)
(* database: d.proofs the live rows in insertion order, d.used the         *)
(* secrets of the invalidated proofs.                                      *)
(***************************************************************************)
RECURSIVE RemoveSecret(_, _)
RemoveSecret(ps, secret) ==
    IF ps = <<>> THEN <<>>
    ELSE (IF ps[1].secret = secret THEN <<>> ELSE <<ps[1]>>)
         \o RemoveSecret(Tail(ps), secret)

HasSecret(ps, secret) == \E i \in 1..Len(ps) : ps[i].secret = secret

\* insert or upsert by secret
store_proof(d, p) ==
    IF HasSecret(d.proofs, p.secret)
    THEN [d EXCEPT !.proofs =
            [i \in 1..Len(d.proofs) |->
                IF d.proofs[i].secret = p.secret THEN p ELSE d.proofs[i]]]
    ELSE [d EXCEPT !.proofs = Append(d.proofs, p)]

get_proofs(d) == d.proofs

invalidate_proof(d, p) ==
    [proofs |-> RemoveSecret(d.proofs, p.secret), used |-> d.used \cup {p.secret}]

secret_used(d, s) == HasSecret(d.proofs, s) \/ s \in d.used

update_proof_reserved(d, p, reserved, send_id) ==
    [d EXCEPT !.proofs =
        [i \in 1..Len(d.proofs) |->
            IF d.proofs[i].secret = p.secret
            THEN [d.proofs[i] EXCEPT !.reserved = reserved, !.send_id = send_id]
            ELSE d.proofs[i]]]

\* Wallet._store_proofs
RECURSIVE store_proofs(_, _)
store_proofs(d, ps) ==
    IF ps = <<>> THEN d ELSE store_proofs(store_proof(d, ps[1]), Tail(ps))

RECURSIVE invalidate_all(_, _)
invalidate_all(d, ps) ==
    IF ps = <<>> THEN d ELSE invalidate_all(invalidate_proof(d, ps[1]), Tail(ps))

\* a faulty variant: the loop returns after the first secret
check_first_secret_only(d, secrets) ==
    secrets # <<>> /\ secret_used(d, secrets[1])

\* a faulty variant: the check is left out
check_no_secret(d, secrets) == FALSE

\* LedgerAPI._check_used_secrets: TRUE when it raises
check_used_secrets(d, secrets) ==
    \E i \in 1..Len(secrets) : secret_used(d, secrets[i])

(***************************************************************************)
(* The mint's answers.  kind "ok" is a well-formed body; "http" a          *)
(* non-success status (raise_for_status), "json" a body that is not JSON,  *)
(* "error" a JSON body with an "error" field.                              *)
(***************************************************************************)
FailKinds == {"http", "json", "error"}

\* what the call raises on a failed answer
Raised(kind) == CASE kind = "http"  -> "http_error"
                  [] kind = "json"  -> "unknown_mint_error"
                  [] kind = "error" -> "mint_error"

\* the result of a call that raised before changing anything
Fail(outcome, reqs, cand) ==
    [outcome |-> outcome, proofs |-> proofs, db |-> db, reqs |-> reqs,
     fst |-> <<>>, snd |-> <<>>, cand |-> cand]

Request(path, ins, amounts, secrets) ==
    [path |-> path, proofs |-> ins, amounts |-> amounts, secrets |-> secrets]

(***************************************************************************)
(* mint                                                                    *)
(***************************************************************************)
\* answers to POST /mint: a failure, or m signatures, for all n outputs or for
\* none of them
MintAnswers(n) ==
    [kind : FailKinds, m : {0}] \cup [kind : {"ok"}, m : {0, n}]

\* a faulty variant: the new proofs are appended to memory and not stored
mint_not_stored(amount, toks, resp) ==
    LET split   == amount_split(amount)
        secrets == SubSeq(toks, 1, Len(split))
        req     == <<Request("/mint", <<>>, split, secrets)>>
        new     == construct_proofs(SubSeq(split, 1, resp.m), secrets)
    IN IF check_used_secrets(db, secrets) THEN Fail("secret_used", <<>>, secrets)
       ELSE IF resp.kind # "ok" THEN Fail(Raised(resp.kind), req, secrets)
       ELSE IF new = <<>> THEN Fail("no_proofs", req, secrets)
       ELSE [outcome |-> "ok", proofs |-> proofs \o new,
             db |-> db, reqs |-> req,
             fst |-> new, snd |-> <<>>, cand |-> secrets]

\* LedgerAPI.mint followed by the rest of Wallet.mint
Wallet_mint(amount, toks, resp) ==
    LET split   == amount_split(amount)
        secrets == SubSeq(toks, 1, Len(split))
        req     == <<Request("/mint", <<>>, split, secrets)>>
        new     == construct_proofs(SubSeq(split, 1, resp.m), secrets)
    IN IF check_used_secrets(db, secrets) THEN Fail("secret_used", <<>>, secrets)
       ELSE IF resp.kind # "ok" THEN Fail(Raised(resp.kind), req, secrets)
       ELSE IF new = <<>> THEN Fail("no_proofs", req, secrets)
       ELSE [outcome |-> "ok", proofs |-> proofs \o new,
             db |-> store_proofs(db, new), reqs |-> req,
             fst |-> new, snd |-> <<>>, cand |-> secrets]

(***************************************************************************)
(* split                                                                   *)
(***************************************************************************)
\* scnd_secret: <<>> is None, <<s>> the string s
ScndSecrets == {<<>>, <<<<"x">>>>, <<Marker \o <<"x">>>>}

\* answers to POST /split: a failure, or m signatures, for all n outputs or
\* for none of them, the first k as "fst" and the rest as "snd"
SplitAnswers(n) ==
    [kind : FailKinds, m : {0}, k : {0}]
    \cup {a \in [kind : {"ok"}, m : {0, n}, k : 0..n] : a.k <= a.m}

\* the mint signs nothing for a split that asks for more than its inputs hold
SplitAnswersFor(ins, amount, n) ==
    IF amount > SumSeq(Amounts(ins))
    THEN {a \in SplitAnswers(n) : a.kind # "ok"}
    ELSE SplitAnswers(n)

\* the secrets LedgerAPI.split builds for its outputs; toks are the draws of
\* _generate_secret, one per output
split_secrets(frst_outputs, scnd_outputs, scnd_secret, toks) ==
    LET nf == Len(frst_outputs)
        ns == Len(scnd_outputs)
    IN IF scnd_secret = <<>> THEN SubSeq(toks, 1, nf + ns)
       ELSE SubSeq(toks, 1, nf)
            \o generate_secrets(scnd_secret[1], ns, SubSeq(toks, nf + 1, Len(toks)))

\* a faulty variant: the keep pile is not reduced by the amount sent
split_outputs_keep_total(total, amount) ==
    [frst |-> amount_split(total), scnd |-> amount_split(amount)]

\* LedgerAPI.split, the amounts of its outputs: the keep pile, the send pile
split_outputs(total, amount) ==
    [frst |-> amount_split(total - amount), scnd |-> amount_split(amount)]

\* LedgerAPI.split from _check_used_secrets on: what it raises or returns, the
\* request it sent and the secrets it built
split_request(ins, amounts, secrets, resp) ==
    IF check_used_secrets(db, secrets)
    THEN [outcome |-> "secret_used", reqs |-> <<>>, fst |-> <<>>, snd |-> <<>>,
          cand |-> secrets]
    ELSE IF resp.kind # "ok"
    THEN [outcome |-> Raised(resp.kind),
          reqs |-> <<Request("/split", ins, amounts, secrets)>>,
          fst |-> <<>>, snd |-> <<>>, cand |-> secrets]
    ELSE [outcome |-> "ok",
          reqs |-> <<Request("/split", ins, amounts, secrets)>>,
          \* promises_fst is amounts[1..k], promises_snd amounts[k+1..m]
          fst |-> construct_proofs(SubSeq(amounts, 1, resp.k),
                                   SubSeq(secrets, 1, resp.k)),
          snd |-> construct_proofs(SubSeq(amounts, resp.k + 1, resp.m),
                                   SubSeq(secrets, resp.k + 1, Len(secrets))),
          cand |-> secrets]

\* LedgerAPI.split
LedgerAPI_split(ins, amount, scnd_secret, toks, resp) ==
    LET outs == split_outputs(SumSeq(Amounts(ins)), amount)
    IN split_request(ins, outs.frst \o outs.scnd,
                     split_secrets(outs.frst, outs.scnd, scnd_secret, toks), resp)

\* self.proofs without the proofs whose secret is among those of ps
WithoutSecrets(mem, ps) ==
    SelectSeq(mem, LAMBDA p : p.secret \notin Range(Secrets(ps)))

\* a faulty variant: the inputs are invalidated though LedgerAPI.split raised
split_store_invalidates_on_error(ins, s) ==
    IF s.outcome # "ok"
    THEN [Fail(s.outcome, s.reqs, s.cand) EXCEPT
            !.proofs = WithoutSecrets(proofs, ins), !.db = invalidate_all(db, ins)]
    ELSE IF s.fst = <<>> /\ s.snd = <<>> THEN Fail("no_splits", s.reqs, s.cand)
    ELSE [outcome |-> "ok",
          proofs |-> WithoutSecrets(proofs, ins) \o s.fst \o s.snd,
          db |-> invalidate_all(store_proofs(db, s.fst \o s.snd), ins),
          reqs |-> s.reqs, fst |-> s.fst, snd |-> s.snd, cand |-> s.cand]

\* Wallet.split once LedgerAPI.split has returned s
split_store(ins, s) ==
    IF s.outcome # "ok" THEN Fail(s.outcome, s.reqs, s.cand)
    ELSE IF s.fst = <<>> /\ s.snd = <<>> THEN Fail("no_splits", s.reqs, s.cand)
    ELSE [outcome |-> "ok",
          proofs |-> WithoutSecrets(proofs, ins) \o s.fst \o s.snd,
          db |-> invalidate_all(store_proofs(db, s.fst \o s.snd), ins),
          reqs |-> s.reqs, fst |-> s.fst, snd |-> s.snd, cand |-> s.cand]

\* Wallet.split
Wallet_split(ins, amount, scnd_secret, toks, resp) ==
    IF ins = <<>> THEN Fail("assert_no_proofs", <<>>, <<>>)
    ELSE split_store(ins, LedgerAPI_split(ins, amount, scnd_secret, toks, resp))

\* a faulty variant: the reserved proofs are not filtered out of the pile
unreserved_all(ps) == ps

\* Wallet.split_to_send
Unreserved(ps) == SelectSeq(ps, LAMBDA p : ~p.reserved)

Wallet_split_to_send(ins, amount, scnd_secret, toks, resp) ==
    IF Len(Unreserved(ins)) <= 0 THEN Fail("balance_too_low", <<>>, <<>>)
    ELSE Wallet_split(Unreserved(ins), amount, scnd_secret, toks, resp)

(***************************************************************************)
(* invalidate, pay_lightning                                               *)
(***************************************************************************)
\* answers to POST /check: a failure, or one boolean per proof sent
CheckAnswers(n) ==
    [kind : {"http"}, spendable : {<<>>}]
    \cup [kind : {"ok"}, spendable : [1..n -> BOOLEAN]]

\* answers to POST /melt
MeltAnswers == [kind : {"http"}, paid : {FALSE}] \cup [kind : {"ok"}, paid : BOOLEAN]

\* a faulty variant: the test of the answer is inverted
invalidated_proofs_spendable(ins, chk) ==
    Pick(ins, {i \in 1..Len(ins) : chk.spendable[i]})

\* Wallet.invalidate, its loop: the proofs of ins the answer reports as not
\* spendable
invalidated_proofs(ins, chk) ==
    Pick(ins, {i \in 1..Len(ins) : ~chk.spendable[i]})

\* Wallet.invalidate
Wallet_invalidate(ins, chk) ==
    LET req == <<Request("/check", ins, <<>>, <<>>)>>
    IN IF chk.kind # "ok" THEN Fail(Raised(chk.kind), req, <<>>)
       ELSE [outcome |-> "ok",
             proofs |-> WithoutSecrets(proofs, invalidated_proofs(ins, chk)),
             db |-> invalidate_all(db, invalidated_proofs(ins, chk)),
             reqs |-> req, fst |-> <<>>, snd |-> <<>>, cand |-> <<>>]

\* a faulty variant: a paid invoice does not invalidate its proofs
pay_lightning_no_invalidate(ins, melt, chk) ==
    LET req == <<Request("/melt", ins, <<>>, <<>>)>>
    IN IF melt.kind # "ok" THEN Fail(Raised(melt.kind), req, <<>>)
       ELSE IF melt.paid
       THEN [Fail("ok", req, <<>>) EXCEPT !.outcome = "ok"]
       ELSE Fail("could_not_pay", req, <<>>)

\* a faulty variant: the proofs are invalidated before the answer is looked at
pay_lightning_invalidate_first(ins, melt, chk) ==
    LET req == <<Request("/melt", ins, <<>>, <<>>)>>
        inv == [Wallet_invalidate(ins, chk) EXCEPT !.reqs = req \o @]
    IN IF melt.kind # "ok" THEN Fail(Raised(melt.kind), req, <<>>)
       ELSE IF melt.paid THEN inv
       ELSE [inv EXCEPT !.outcome = "could_not_pay"]

\* Wallet.pay_lightning
Wallet_pay_lightning(ins, melt, chk) ==
    LET req == <<Request("/melt", ins, <<>>, <<>>)>>
    IN IF melt.kind # "ok" THEN Fail(Raised(melt.kind), req, <<>>)
       ELSE IF melt.paid
       THEN [Wallet_invalidate(ins, chk) EXCEPT !.reqs = req \o @]
       ELSE Fail("could_not_pay", req, <<>>)

(***************************************************************************)
(* set_reserved                                                            *)
(***************************************************************************)
\* str(uuid.uuid1()) at clock reading c
Uuid(c) == <<"u", ToString(c)>>

RECURSIVE update_all_reserved(_, _, _, _)
update_all_reserved(d, ps, reserved, send_id) ==
    IF ps = <<>> THEN d
    ELSE update_all_reserved(update_proof_reserved(d, ps[1], reserved, send_id),
                             Tail(ps), reserved, send_id)

\* a faulty variant: the flag is persisted and not set in memory
set_reserved_store_only(I, reserved, uuid_str) ==
    [outcome |-> "ok",
     proofs |-> proofs,
     db |-> update_all_reserved(db, Pick(proofs, I), reserved, uuid_str),
     reqs |-> <<>>, fst |-> <<>>, snd |-> <<>>, cand |-> <<>>]

\* Wallet.set_reserved on the proofs of self.proofs at the indices I
Wallet_set_reserved(I, reserved, uuid_str) ==
    [outcome |-> "ok",
     proofs |-> [i \in 1..Len(proofs) |->
                    IF i \in I THEN [proofs[i] EXCEPT !.reserved = TRUE]
                    ELSE proofs[i]],
     db |-> update_all_reserved(db, Pick(proofs, I), reserved, uuid_str),
     reqs |-> <<>>, fst |-> <<>>, snd |-> <<>>, cand |-> <<>>]

\* Wallet.balance, Wallet.available_balance, of the proof list ps
Balance(ps) == SumSeq(Amounts(ps))

AvailableBalance(ps) == SumSeq(Amounts(Unreserved(ps)))

balance == Balance(proofs)

available_balance == AvailableBalance(proofs)

(***************************************************************************)
(* The record of the last call.                                            *)
(***************************************************************************)
NoResp == [kind |-> "none", m |-> 0, k |-> 0, paid |-> FALSE]

NoChk == [kind |-> "none", spendable |-> <<>>]

Call(op, ins, amount, scnd, reserved, resp, chk, r) ==
    [op |-> op, ins |-> ins, amount |-> amount, scnd |-> scnd,
     reserved |-> reserved, resp |-> resp, chk |-> chk,
     outcome |-> r.outcome, reqs |-> r.reqs, fst |-> r.fst, snd |-> r.snd,
     cand |-> r.cand, pre |-> [proofs |-> proofs, db |-> db]]

NoCall ==
    [op |-> "idle", ins |-> <<>>, amount |-> 0, scnd |-> <<>>,
     reserved |-> FALSE, resp |-> NoResp, chk |-> NoChk,
     outcome |-> "ok", reqs |-> <<>>, fst |-> <<>>, snd |-> <<>>,
     cand |-> <<>>, pre |-> [proofs |-> <<>>, db |-> [proofs |-> <<>>, used |-> {}]]]

\* Wallet.__init__ on a new database
Init ==
    /\ proofs = <<>>
    /\ db = [proofs |-> <<>>, used |-> {}]
    /\ drawn = 0
    /\ uuidClock = 0
    /\ calls = 0
    /\ last = NoCall

\* the arguments a caller passes as `proofs`: proofs of self.proofs
Piles == {Pick(proofs, I) : I \in SUBSET (1..Len(proofs))}

\* how many outputs split(ins, amount) builds
NumOutputs(ins, amount) ==
    LET outs == split_outputs(SumSeq(Amounts(ins)), amount)
    IN Len(outs.frst) + Len(outs.scnd)

\* how many times split(ins, amount, scnd_secret) calls _generate_secret
NumDraws(ins, amount, scnd_secret) ==
    LET outs == split_outputs(SumSeq(Amounts(ins)), amount)
    IN Len(outs.frst)
       + (IF scnd_secret = <<>> \/ SplitParts(scnd_secret[1]) = 2
          THEN Len(outs.scnd) ELSE 0)

\* The wallet takes one call at a time: the next call starts once the caller
\* has taken the result (or the exception) of the last one.
Idle == last.op = "idle"

\* the caller makes another call
Ready == Idle /\ calls < MaxCalls

Mint ==
    \E amount \in 0..MaxAmount :
      /\ Ready
      /\ balance + amount <= MaxBalance
      /\ \E f \in Draws(drawn, Len(amount_split(amount))) :
         \E a \in MintAnswers(Len(amount_split(amount))) :
            LET resp == [kind |-> a.kind, m |-> a.m, k |-> 0, paid |-> FALSE]
                r    == Wallet_mint(amount, TokensOf(f), resp)
            IN /\ proofs' = r.proofs
               /\ db' = r.db
               /\ drawn' = IF r.outcome = "ok" THEN drawn + NumFresh(drawn, f) ELSE drawn
               /\ calls' = calls + 1
               /\ last' = Call("mint", <<>>, amount, <<>>, FALSE, resp, NoChk, r)
               /\ UNCHANGED uuidClock

Split ==
    Ready /\
    \E ins \in Piles, amount \in 0..MaxAmount, scnd \in ScndSecrets :
    \E f \in Draws(drawn, NumDraws(ins, amount, scnd)) :
    \E a \in SplitAnswersFor(ins, amount, NumOutputs(ins, amount)) :
        LET resp == [kind |-> a.kind, m |-> a.m, k |-> a.k, paid |-> FALSE]
            r    == Wallet_split(ins, amount, scnd, TokensOf(f), resp)
        IN /\ proofs' = r.proofs
           /\ db' = r.db
           /\ drawn' = IF r.outcome = "ok" THEN drawn + NumFresh(drawn, f) ELSE drawn
           /\ calls' = calls + 1
           /\ last' = Call("split", ins, amount, scnd, FALSE, resp, NoChk, r)
           /\ UNCHANGED uuidClock

SplitToSend ==
    Ready /\
    \E ins \in Piles, amount \in 0..MaxAmount, scnd \in ScndSecrets :
    \E f \in Draws(drawn, NumDraws(Unreserved(ins), amount, scnd)) :
    \E a \in SplitAnswersFor(Unreserved(ins), amount,
                            NumOutputs(Unreserved(ins), amount)) :
        LET resp == [kind |-> a.kind, m |-> a.m, k |-> a.k, paid |-> FALSE]
            r    == Wallet_split_to_send(ins, amount, scnd, TokensOf(f), resp)
        IN /\ proofs' = r.proofs
           /\ db' = r.db
           /\ drawn' = IF r.outcome = "ok" THEN drawn + NumFresh(drawn, f) ELSE drawn
           /\ calls' = calls + 1
           /\ last' = Call("split_to_send", ins, amount, scnd, FALSE, resp, NoChk, r)
           /\ UNCHANGED uuidClock

Invalidate ==
    Ready /\
    \E ins \in Piles :
    \E chk \in CheckAnswers(Len(ins)) :
        LET r == Wallet_invalidate(ins, chk)
        IN /\ proofs' = r.proofs
           /\ db' = r.db
           /\ calls' = calls + 1
           /\ last' = Call("invalidate", ins, 0, <<>>, FALSE, NoResp, chk, r)
           /\ UNCHANGED <<drawn, uuidClock>>

PayLightning ==
    Ready /\
    \E ins \in Piles :
    \E melt \in MeltAnswers :
    \E chk \in CheckAnswers(Len(ins)) :
        LET resp == [kind |-> melt.kind, m |-> 0, k |-> 0, paid |-> melt.paid]
            r    == Wallet_pay_lightning(ins, melt, chk)
        IN /\ proofs' = r.proofs
           /\ db' = r.db
           /\ calls' = calls + 1
           /\ last' = Call("pay_lightning", ins, 0, <<>>, FALSE, resp, chk, r)
           /\ UNCHANGED <<drawn, uuidClock>>

SetReserved ==
    /\ Ready
    /\ \E I \in SUBSET (1..Len(proofs)), reserved \in BOOLEAN :
        LET r == Wallet_set_reserved(I, reserved, Uuid(uuidClock + 1))
        IN /\ proofs' = r.proofs
           /\ db' = r.db
           /\ uuidClock' = uuidClock + 1
           /\ UNCHANGED drawn
           /\ calls' = calls + 1
           /\ last' = Call("set_reserved", Pick(proofs, I), 0, <<>>, reserved,
                           NoResp, NoChk, r)

\* Wallet.load_proofs
LoadProofs ==
    /\ Ready
    /\ proofs' = get_proofs(db)
    /\ calls' = calls + 1
    /\ last' = Call("load_proofs", <<>>, 0, <<>>, FALSE, NoResp, NoChk,
                    [outcome |-> "ok", reqs |-> <<>>, fst |-> <<>>, snd |-> <<>>,
                     cand |-> <<>>])
    /\ UNCHANGED <<db, drawn, uuidClock>>

\* the caller takes the result of the call
Return ==
    /\ ~Idle
    /\ last' = NoCall
    /\ UNCHANGED <<proofs, db, drawn, uuidClock, calls>>

Next ==
    \/ Mint
    \/ Split
    \/ SplitToSend
    \/ Invalidate
    \/ PayLightning
    \/ SetReserved
    \/ LoadProofs
    \/ Return

Spec == Init /\ [][Next]_vars

(***************************************************************************)
(* A wallet opened on the database an earlier run left.  That run minted   *)
(* MaxBalance, saw the proofs at J spent (invalidate) and reserved those   *)
(* at I for a send; this run has constructed the Wallet and called         *)
(* load_proofs.                                                            *)
(***************************************************************************)
EarlierProofs ==
    construct_proofs(amount_split(MaxBalance),
                     [i \in 1..Len(amount_split(MaxBalance)) |-> Token(i)])

EarlierDb(J, I) ==
    update_all_reserved(
        invalidate_all(store_proofs([proofs |-> <<>>, used |-> {}], EarlierProofs),
                       Pick(EarlierProofs, J)),
        Pick(EarlierProofs, I), TRUE, Uuid(1))

InitReopened ==
    \E J \in SUBSET (1..Len(EarlierProofs)) :
    \E I \in SUBSET ((1..Len(EarlierProofs)) \ J) :
        /\ db = EarlierDb(J, I)
        /\ proofs = get_proofs(EarlierDb(J, I))
        /\ drawn = Len(EarlierProofs)
        /\ uuidClock = 1
        /\ calls = 0
        /\ last = NoCall

SpecReopened == InitReopened /\ [][Next]_vars

(***************************************************************************)
(* The static methods and helpers of LedgerAPI, called on their own.       *)
(***************************************************************************)
\* base strings: without the marker, with it once (at the start, inside, at
\* the end), with it twice, and with a part of it
Bases ==
    {<<>>, <<"x">>, <<"P", "2", "S", "H">>,
     Marker, Marker \o <<"x">>, <<"x">> \o Marker \o <<"y">>,
     Marker \o Marker \o <<"x">>, Marker \o <<"x", ":">> \o Marker}

GetOutputSplit ==
    /\ Idle
    /\ \E amount \in 0..MaxSplitAmount :
         last' = [op |-> "get_output_split", amount |-> amount,
                  result |-> get_output_split(amount)]
    /\ UNCHANGED <<proofs, db, drawn, uuidClock, calls>>

GenerateSecrets ==
    /\ Idle
    /\ \E secret \in Bases, n \in 0..MaxSecrets :
       \E f \in Draws(drawn, n) :
         last' = [op |-> "generate_secrets", secret |-> secret, n |-> n,
                  result |-> generate_secrets(secret, n, TokensOf(f))]
    /\ UNCHANGED <<proofs, db, drawn, uuidClock, calls>>

(***************************************************************************)
(* Blinding (cashu.core.b_dhke), as spec 4.1 states it.  A point is        *)
(* written by what it was made of: the blinded message of a secret under   *)
(* the factor r is Y + r.G with Y = H2C(secret); the mint's signature k.B_ *)
(* is k.Y + r.K; unblinding with r2 leaves k.Y + (r - r2).K.               *)
(***************************************************************************)
\* the blinding factor step1_alice samples for the i-th output of a call
BlindingFactor(i) == <<"r", ToString(i)>>

step1_alice(secret, i) ==
    [B_ |-> [Y |-> secret, r |-> BlindingFactor(i)], r |-> BlindingFactor(i)]

\* the mint's signature on the blinded message B_
Signed(B_) == [Y |-> B_.Y, r |-> B_.r]

step3_alice(C_, r) == [Y |-> C_.Y, blinded |-> C_.r, unblinded |-> r]

\* LedgerAPI._construct_outputs: zip(secrets, amounts)
construct_outputs(amounts, secrets) ==
    [payloads |-> [i \in 1..Len(amounts) |->
                    [amount |-> amounts[i], B_ |-> step1_alice(secrets[i], i).B_]],
     rs |-> [i \in 1..Len(amounts) |-> step1_alice(secrets[i], i).r]]

\* the signatures of an answer to /split: of the first m outputs, in order
Promises(payloads, m) ==
    [i \in 1..m |-> [amount |-> payloads[i].amount, C_ |-> Signed(payloads[i].B_)]]

\* LedgerAPI._construct_proofs with the blinding factors:
\* zip(promises, secrets, rs)
construct_proofs_rs(promises, secrets, rs) ==
    LET n == IF Len(promises) < Len(secrets) THEN Len(promises) ELSE Len(secrets)
    IN [i \in 1..n |->
          [amount |-> promises[i].amount, secret |-> secrets[i],
           C |-> step3_alice(promises[i].C_, rs[i])]]

\* a faulty variant: the blinding factors of the send pile are not sliced
split_unblind_rs_unsliced(promises, k, secrets, rs) ==
    [fst |-> construct_proofs_rs(SubSeq(promises, 1, k),
                                 SubSeq(secrets, 1, k), SubSeq(rs, 1, k)),
     snd |-> construct_proofs_rs(SubSeq(promises, k + 1, Len(promises)),
                                 SubSeq(secrets, k + 1, Len(secrets)), rs)]

\* LedgerAPI.split from the answer on: promises_fst are the first k promises,
\* promises_snd the rest; secrets and rs are sliced at len(promises_fst)
split_unblind(promises, k, secrets, rs) ==
    [fst |-> construct_proofs_rs(SubSeq(promises, 1, k),
                                 SubSeq(secrets, 1, k), SubSeq(rs, 1, k)),
     snd |-> construct_proofs_rs(SubSeq(promises, k + 1, Len(promises)),
                                 SubSeq(secrets, k + 1, Len(secrets)),
                                 SubSeq(rs, k + 1, Len(rs)))]

\* LedgerAPI.split(proofs, amount, scnd_secret) on proofs of the given total,
\* answered by the mint with the signatures of its first m outputs, the first
\* k of them as "fst"
LedgerSplit ==
    /\ Idle
    /\ \E total \in 1..MaxBalance, scnd \in ScndSecrets :
       \E amount \in 0..total :
       \E outs \in {split_outputs(total, amount)} :
       \E f \in Draws(drawn, Len(outs.frst) + Len(outs.scnd)) :
       \E secrets \in {split_secrets(outs.frst, outs.scnd, scnd, TokensOf(f))} :
       \E o \in {construct_outputs(outs.frst \o outs.scnd, secrets)} :
       \E a \in {b \in SplitAnswers(Len(secrets)) : b.kind = "ok"} :
         last' = [op |-> "ledger_split", total |-> total, amount |-> amount,
                  scnd |-> scnd, toks |-> TokensOf(f),
                  keep_amts |-> outs.frst, send_amts |-> outs.scnd,
                  secrets |-> secrets, rs |-> o.rs, resp |-> a,
                  result |-> split_unblind(Promises(o.payloads, a.m), a.k,
                                           secrets, o.rs)]
    /\ UNCHANGED <<proofs, db, drawn, uuidClock, calls>>

NextPure ==
    \/ GetOutputSplit
    \/ GenerateSecrets
    \/ LedgerSplit
    \/ Return

SpecPure == Init /\ [][NextPure]_vars

(***************************************************************************)
(* Wallet.split, one store write at a time.  After LedgerAPI.split has     *)
(* returned and self.proofs is updated, _store_proofs awaits store_proof   *)
(* for each new proof, then the loop awaits invalidate_proof for each      *)
(* input.  An awaited write may raise, and the task may be stopped at any  *)
(* await.  last holds the running call: new are the proofs to store, k of  *)
(* them are stored, j of the inputs are invalidated.                       *)
(***************************************************************************)
Running == last.op = "split_steps" /\ last.status = "running"

\* a faulty variant: the inputs are invalidated without awaiting the writes
may_invalidate_at_once(l) == TRUE

\* the loop over the inputs starts when _store_proofs has returned
may_invalidate(l) == l.k = Len(l.new)

\* Wallet.split up to the update of self.proofs
SplitBegin ==
    Idle /\ calls < MaxStepCalls /\
    \E ins \in Piles, amount \in 0..MaxAmount, scnd \in ScndSecrets :
    \E f \in Draws(drawn, NumDraws(ins, amount, scnd)) :
    \E a \in SplitAnswersFor(ins, amount, NumOutputs(ins, amount)) :
    \E r \in {Wallet_split(ins, amount, scnd, TokensOf(f),
                           [kind |-> a.kind, m |-> a.m, k |-> a.k, paid |-> FALSE])} :
        /\ proofs' = r.proofs
        /\ db' = db
        /\ drawn' = IF r.outcome = "ok" THEN drawn + NumFresh(drawn, f) ELSE drawn
        /\ calls' = calls + 1
        /\ last' = [op |-> "split_steps",
                    status |-> IF r.outcome = "ok" THEN "running" ELSE "raised",
                    ins |-> ins, new |-> r.fst \o r.snd, k |-> 0, j |-> 0,
                    pre |-> [proofs |-> proofs, db |-> db]]
        /\ UNCHANGED uuidClock

\* _store_proofs: one awaited store_proof
StoreOne ==
    /\ Running
    /\ last.k < Len(last.new)
    /\ db' = store_proof(db, last.new[last.k + 1])
    /\ last' = [last EXCEPT !.k = @ + 1]
    /\ UNCHANGED <<proofs, drawn, uuidClock, calls>>

\* one awaited invalidate_proof
InvalidateOne ==
    /\ Running
    /\ may_invalidate(last)
    /\ last.j < Len(last.ins)
    /\ db' = invalidate_proof(db, last.ins[last.j + 1])
    /\ last' = [last EXCEPT !.j = @ + 1]
    /\ UNCHANGED <<proofs, drawn, uuidClock, calls>>

\* return frst_proofs, scnd_proofs
SplitDone ==
    /\ Running
    /\ last.k = Len(last.new)
    /\ last.j = Len(last.ins)
    /\ last' = [last EXCEPT !.status = "returned"]
    /\ UNCHANGED <<proofs, db, drawn, uuidClock, calls>>

\* the awaited write raises, or the task is stopped at the await
SplitStops ==
    /\ Running
    /\ last.k < Len(last.new) \/ last.j < Len(last.ins)
    /\ \E status \in {"raised", "stopped"} : last' = [last EXCEPT !.status = status]
    /\ UNCHANGED <<proofs, db, drawn, uuidClock, calls>>

\* the caller takes the result or the exception of a call that has ended
TakeResult ==
    /\ last.op = "split_steps" => last.status \in {"returned", "raised"}
    /\ Return

NextSteps ==
    \/ Mint
    \/ SplitBegin
    \/ StoreOne
    \/ InvalidateOne
    \/ SplitDone
    \/ SplitStops
    \/ TakeResult

SpecSteps == Init /\ [][NextSteps]_vars

(***************************************************************************)
(* Two calls of Wallet.mint on one wallet, as asyncio tasks.  A task runs  *)
(* until it awaits a store operation: each secret_used of                  *)
(* _check_used_secrets, each store_proof of _store_proofs.  requests.post  *)
(* does not suspend: the request follows the last secret_used at once.     *)
(* last holds the tasks and the log of the /mint requests.                 *)
(***************************************************************************)
Tasks == {"a", "b"}

IdleTask ==
    [pc |-> "idle", amount |-> 0, secrets |-> <<>>, i |-> 0, new |-> <<>>,
     k |-> 0, outcome |-> "", after |-> {}]

InitTasks ==
    /\ proofs = <<>>
    /\ db = [proofs |-> <<>>, used |-> {}]
    /\ drawn = 0
    /\ uuidClock = 0
    /\ calls = 0
    /\ last = [op |-> "tasks", task |-> [t \in Tasks |-> IdleTask], posted |-> <<>>]

\* a faulty variant: the answer of secret_used is not looked at
check_one_ignored(d, secret) == FALSE

\* _check_used_secrets, one turn of its loop: TRUE when it raises
check_one(d, secret) == secret_used(d, secret)

\* the task when the mint has answered resp to its /mint request
task_posted(task, resp) ==
    IF resp.kind # "ok" THEN [task EXCEPT !.pc = "raised", !.outcome = Raised(resp.kind)]
    ELSE IF resp.m = 0 THEN [task EXCEPT !.pc = "raised", !.outcome = "no_proofs"]
    ELSE [task EXCEPT !.pc = "store",
                      !.new = construct_proofs(
                                 SubSeq(amount_split(task.amount), 1, resp.m),
                                 task.secrets)]

\* Wallet.mint is called: the secrets are generated
TaskBegin(t) ==
    /\ last.task[t].pc = "idle"
    /\ calls < MaxCalls
    /\ \E amount \in 1..MaxAmount :
       \E f \in Draws(drawn, Len(amount_split(amount))) :
         /\ last' = [last EXCEPT !.task[t] =
                       [pc |-> "check", amount |-> amount, secrets |-> TokensOf(f),
                        i |-> 0, new |-> <<>>, k |-> 0, outcome |-> "",
                        after |-> {u \in Tasks : last.task[u].pc = "done"}]]
         /\ drawn' = drawn + NumFresh(drawn, f)
    /\ calls' = calls + 1
    /\ UNCHANGED <<proofs, db, uuidClock>>

\* one awaited secret_used; after the last one the request is sent and answered
TaskCheck(t) ==
    /\ last.task[t].pc = "check"
    /\ IF check_one(db, last.task[t].secrets[last.task[t].i + 1])
       THEN last' = [last EXCEPT !.task[t].pc = "raised",
                                 !.task[t].outcome = "secret_used"]
       ELSE IF last.task[t].i + 1 < Len(last.task[t].secrets)
       THEN last' = [last EXCEPT !.task[t].i = @ + 1]
       ELSE \E a \in MintAnswers(Len(last.task[t].secrets)) :
              last' = [last EXCEPT
                         !.task[t] = task_posted(
                            [last.task[t] EXCEPT !.i = @ + 1],
                            [kind |-> a.kind, m |-> a.m]),
                         !.posted = Append(@, [task |-> t,
                                               secrets |-> last.task[t].secrets])]
    /\ UNCHANGED <<proofs, db, drawn, uuidClock, calls>>

\* one awaited store_proof; after the last one self.proofs += proofs
TaskStore(t) ==
    /\ last.task[t].pc = "store"
    /\ db' = store_proof(db, last.task[t].new[last.task[t].k + 1])
    /\ IF last.task[t].k + 1 = Len(last.task[t].new)
       THEN /\ proofs' = proofs \o last.task[t].new
            /\ last' = [last EXCEPT !.task[t].k = @ + 1, !.task[t].pc = "done",
                                    !.task[t].outcome = "ok"]
       ELSE /\ proofs' = proofs
            /\ last' = [last EXCEPT !.task[t].k = @ + 1]
    /\ UNCHANGED <<drawn, uuidClock, calls>>

NextTasks ==
    \/ \E t \in Tasks : TaskBegin(t)
    \/ \E t \in Tasks : TaskCheck(t)
    \/ \E t \in Tasks : TaskStore(t)

SpecTasks == InitTasks /\ [][NextTasks]_vars

(***************************************************************************)
(* What the claims speak of.                                               *)
(***************************************************************************)
\* the number of one bits of n
RECURSIVE PopCount(_)
PopCount(n) == IF n = 0 THEN 0 ELSE (n % 2) + PopCount(n \div 2)

RECURSIVE IsPowerOfTwo(_)
IsPowerOfTwo(n) == n = 1 \/ (n > 1 /\ n % 2 = 0 /\ IsPowerOfTwo(n \div 2))

\* the sum of the amounts of ps at the indices in I
RECURSIVE SumAt(_, _)
SumAt(ps, I) ==
    IF I = {} THEN 0
    ELSE LET i == CHOOSE j \in I : TRUE IN ps[i].amount + SumAt(ps, I \ {i})

SecretSet(ps) == {ps[i].secret : i \in 1..Len(ps)}

NoSharedSecret(ps) ==
    \A i, j \in 1..Len(ps) : i # j => ps[i].secret # ps[j].secret

\* the last call left the wallet's memory and the store as they were
Untouched == proofs = last.pre.proofs /\ db = last.pre.db

Paths(reqs) == {reqs[i].path : i \in 1..Len(reqs)}

LastTotal == SumAt(last.ins, 1..Len(last.ins))

\* the mint answered the last /split with one signature per output, the keep
\* outputs as fst and the send outputs as snd
HonestSplit ==
    /\ last.resp.kind = "ok"
    /\ last.reqs # <<>>
    /\ last.resp.m = Len(last.reqs[1].amounts)
    /\ last.resp.k = PopCount(LastTotal - last.amount)

\* C1: for a non-empty pile P and 0 <= a <= sum(P), when the mint answers
\* /split with one signature per output (keep outputs as fst, send outputs
\* as snd), Wallet.split(P, a) returns (K, S) with sum(K) = sum(P) - a,
\* sum(S) = a, |K| = popcount(sum(P) - a), |S| = popcount(a), and every
\* returned amount is a power of two.
C1_SplitConservation ==
    (/\ last.op = "split"
     /\ last.ins # <<>>
     /\ last.amount <= LastTotal
     /\ HonestSplit)
    => /\ last.outcome = "ok"
       /\ SumAt(last.fst, 1..Len(last.fst)) = LastTotal - last.amount
       /\ SumAt(last.snd, 1..Len(last.snd)) = last.amount
       /\ Len(last.fst) = PopCount(LastTotal - last.amount)
       /\ Len(last.snd) = PopCount(last.amount)
       /\ \A i \in 1..Len(last.fst) : IsPowerOfTwo(last.fst[i].amount)
       /\ \A i \in 1..Len(last.snd) : IsPowerOfTwo(last.snd[i].amount)

\* a split of a pile of 3 into a keep pile and a send pile, one of two proofs
C1_Witness ==
    /\ last.op = "split"
    /\ last.outcome = "ok"
    /\ HonestSplit
    /\ LastTotal = 3
    /\ last.fst # <<>>
    /\ last.snd # <<>>

\* C2: in mint and in split, if a candidate secret of the new outputs is
\* reported used by secret_used, the call fails with the secret-reuse error
\* before any request is sent, and memory and store are left unchanged.
C2_SecretReuseAborts ==
    (/\ last.op \in {"mint", "split"}
     /\ \E i \in 1..Len(last.cand) : secret_used(last.pre.db, last.cand[i]))
    => /\ last.outcome = "secret_used"
       /\ last.reqs = <<>>
       /\ Untouched

\* a split whose second candidate secret, not its first, is in the store
C2_Witness ==
    /\ last.op = "split"
    /\ last.outcome = "secret_used"
    /\ Len(last.cand) >= 2
    /\ ~secret_used(last.pre.db, last.cand[1])
    /\ last.pre.proofs # <<>>

\* C3: after successful mints and splits no two live proofs, in memory or in
\* the store, share a secret, and every secret of a proof just created was
\* absent from secret_used when its output was submitted.
C3_SecretUniqueness ==
    /\ NoSharedSecret(proofs)
    /\ NoSharedSecret(db.proofs)
    /\ (last.op \in {"mint", "split", "split_to_send"} /\ last.outcome = "ok")
       => \A i \in 1..Len(last.fst \o last.snd) :
             ~secret_used(last.pre.db, (last.fst \o last.snd)[i].secret)

\* a split that succeeded, its two new proofs stored beside one that stays
C3_Witness ==
    /\ last.op = "split"
    /\ last.outcome = "ok"
    /\ Len(last.fst \o last.snd) >= 2
    /\ Len(db.proofs) >= 3
    /\ db.used # {}

\* C4 (the claim as stated): split_to_send fails with a balance error, sends
\* nothing to the mint and changes nothing, whenever the non-reserved part of
\* its input is empty or sums to less than the amount.
C4_BalanceErrorWhenTooLow ==
    (/\ last.op = "split_to_send"
     /\ \/ Unreserved(last.ins) = <<>>
        \/ SumAt(Unreserved(last.ins), 1..Len(Unreserved(last.ins))) < last.amount)
    => /\ last.outcome = "balance_too_low"
       /\ last.reqs = <<>>
       /\ Untouched

AllNotSpendable ==
    /\ last.chk.kind = "ok"
    /\ \A i \in 1..Len(last.ins) : ~last.chk.spendable[i]

InputsGone ==
    \A i \in 1..Len(last.ins) :
        /\ last.ins[i].secret \notin SecretSet(proofs)
        /\ last.ins[i].secret \notin SecretSet(db.proofs)

C6_UnpaidLeavesProofs ==
    (last.op = "pay_lightning" /\ last.resp.kind = "ok" /\ ~last.resp.paid)
    => /\ last.outcome = "could_not_pay"
       /\ Untouched
       /\ "/check" \notin Paths(last.reqs)

C6_Witness ==
    /\ last.op = "pay_lightning"
    /\ last.resp.kind = "ok"
    /\ ~last.resp.paid
    /\ last.ins # <<>>
    /\ last.chk.kind = "ok"
    /\ \E i \in 1..Len(last.ins) : ~last.chk.spendable[i]

\* the secrets of the inputs the last /check answer reports as not spendable
NotSpendableSecrets ==
    {last.ins[i].secret : i \in {j \in 1..Len(last.ins) : ~last.chk.spendable[j]}}

C8_ReservedAccounting ==
    /\ balance = SumAt(proofs, 1..Len(proofs))
    /\ available_balance = SumAt(proofs, {i \in 1..Len(proofs) : ~proofs[i].reserved})
    /\ (/\ last.op = "set_reserved"
        /\ last.reserved
        /\ \A i \in 1..Len(last.ins) : ~last.ins[i].reserved)
       => /\ balance = Balance(last.pre.proofs)
          /\ available_balance = AvailableBalance(last.pre.proofs) - LastTotal

\* one of two unreserved proofs is reserved
C8_Witness ==
    /\ last.op = "set_reserved"
    /\ last.reserved
    /\ last.ins # <<>>
    /\ \A i \in 1..Len(last.ins) : ~last.ins[i].reserved
    /\ available_balance > 0

\* the row of the store holding secret s
Row(s) == CHOOSE r \in Range(db.proofs) : r.secret = s

\* the in-memory proof holding secret s
Held(s) == CHOOSE q \in Range(proofs) : q.secret = s

\* C9 (the claim as stated): after set_reserved(proofs, reserved), for either
\* value of reserved, every proof of the batch has its in-memory flag equal to
\* the argument and to the flag persisted in the store.
C9_ReservedFlagConsistent ==
    last.op = "set_reserved"
    => \A i \in 1..Len(last.ins) :
          /\ Held(last.ins[i].secret).reserved = last.reserved
          /\ Row(last.ins[i].secret).reserved = last.reserved

\* C10 (the claim as stated): every reserved proof, in memory or in the store,
\* has a send_id, and the proofs of one set_reserved call carry one send_id,
\* which no proof outside the batch carries.
C10_ReservedHasSendId ==
    /\ \A i \in 1..Len(proofs) : proofs[i].reserved => proofs[i].send_id # <<>>
    /\ \A i \in 1..Len(db.proofs) : db.proofs[i].reserved => db.proofs[i].send_id # <<>>
    /\ last.op = "set_reserved"
       => /\ \A i \in 1..Len(last.ins) :
                /\ Held(last.ins[i].secret).send_id = Uuid(uuidClock)
                /\ Row(last.ins[i].secret).send_id = Uuid(uuidClock)
          /\ \A j \in 1..Len(proofs) :
                proofs[j].secret \notin SecretSet(last.ins)
                => proofs[j].send_id # Uuid(uuidClock)

\* C11: split_to_send never submits a reserved proof to the mint: the proofs
\* of its /split request are exactly the non-reserved entries of its input,
\* and every reserved input proof is still in memory and in the store's live
\* set, not invalidated, when split_to_send has completed.
C11_ReservedNotSent ==
    last.op = "split_to_send"
    => /\ \A i \in 1..Len(last.reqs) :
            /\ last.reqs[i].proofs = Pick(last.ins, {j \in 1..Len(last.ins) :
                                                      ~last.ins[j].reserved})
            /\ \A j \in 1..Len(last.reqs[i].proofs) : ~last.reqs[i].proofs[j].reserved
       /\ \A i \in 1..Len(last.ins) :
            last.ins[i].reserved
            => /\ last.ins[i] \in Range(proofs)
               /\ last.ins[i].secret \in SecretSet(db.proofs)
               /\ last.ins[i].secret \notin db.used

\* a pile holding a reserved and a free proof was split and the free one spent
C11_Witness ==
    /\ last.op = "split_to_send"
    /\ last.outcome = "ok"
    /\ last.reqs # <<>>
    /\ \E i, j \in 1..Len(last.ins) : last.ins[i].reserved /\ ~last.ins[j].reserved

\* s is ascending and holds powers of two only
AscendingPowers(s) ==
    /\ \A i \in 1..Len(s) : IsPowerOfTwo(s[i])
    /\ \A i, j \in 1..Len(s) : i < j => s[i] < s[j]

RECURSIVE SumOf(_, _)
SumOf(s, I) ==
    IF I = {} THEN 0
    ELSE LET i == CHOOSE j \in I : TRUE IN s[i] + SumOf(s, I \ {i})

\* the mint answered the last /mint with one signature per blinded message
HonestMint ==
    /\ last.resp.kind = "ok"
    /\ last.reqs # <<>>
    /\ last.resp.m = Len(last.reqs[1].amounts)

\* C12: when the mint answers /mint with one signature per blinded message,
\* Wallet.mint(amount), amount > 0, submits popcount(amount) blinded messages
\* whose amounts are the powers of two of amount, stores and appends to memory
\* exactly that many new proofs, returns them, and raises balance by amount;
\* when no proof results it raises and leaves memory and store unchanged.
C12_MintCreatesProofs ==
    /\ (last.op = "mint" /\ last.amount > 0 /\ HonestMint)
       => /\ last.outcome = "ok"
          /\ Len(last.reqs) = 1
          /\ last.reqs[1].path = "/mint"
          /\ Len(last.reqs[1].amounts) = PopCount(last.amount)
          /\ AscendingPowers(last.reqs[1].amounts)
          /\ SumOf(last.reqs[1].amounts, 1..Len(last.reqs[1].amounts)) = last.amount
          /\ Len(last.fst) = PopCount(last.amount)
          /\ \A i \in 1..Len(last.fst) :
                /\ last.fst[i].amount = last.reqs[1].amounts[i]
                /\ last.fst[i].secret = last.reqs[1].secrets[i]
          /\ proofs = last.pre.proofs \o last.fst
          /\ db.proofs = last.pre.db.proofs \o last.fst
          /\ db.used = last.pre.db.used
          /\ SumAt(proofs, 1..Len(proofs))
                = SumAt(last.pre.proofs, 1..Len(last.pre.proofs)) + last.amount
    /\ (last.op = "mint" /\ last.resp.kind = "ok" /\ last.reqs # <<>>
          /\ (last.resp.m = 0 \/ last.amount = 0))
       => /\ last.outcome = "no_proofs"
          /\ Untouched

\* a mint of an amount of two bits, answered with two signatures
C12_Witness ==
    /\ last.op = "mint"
    /\ last.outcome = "ok"
    /\ HonestMint
    /\ Len(last.fst) = 2
    /\ balance = last.amount

\* C13: if the mint answers /mint or /split with a non-success status or with
\* a JSON body holding an "error" field, mint (split) raises to the caller and
\* changes nothing: no proof is added to or removed from memory, none is
\* stored, and no input proof is invalidated in the store.
C13_MintErrorChangesNothing ==
    (/\ last.op \in {"mint", "split", "split_to_send"}
     /\ last.reqs # <<>>
     /\ last.resp.kind \in {"http", "error"})
    => /\ last.outcome = (IF last.resp.kind = "http" THEN "http_error" ELSE "mint_error")
       /\ last.fst = <<>>
       /\ last.snd = <<>>
       /\ Untouched

\* the mint refused the /split of a proof the wallet holds
C13_Witness ==
    /\ last.op = "split"
    /\ last.reqs # <<>>
    /\ last.resp.kind = "error"
    /\ last.ins # <<>>
    /\ last.cand # <<>>

\* C14: _get_output_split(n), n >= 0, returns the distinct powers of two at
\* the set bits of n in ascending order, summing to n; it returns [] for 0,
\* [1] for 1 and [1, 4, 8] for 13.
C14_OutputSplitIsBinary ==
    last.op = "get_output_split"
    => /\ AscendingPowers(last.result)
       /\ \A i \in 1..Len(last.result) : (last.amount \div last.result[i]) % 2 = 1
       /\ Len(last.result) = PopCount(last.amount)
       /\ SumOf(last.result, 1..Len(last.result)) = last.amount
       /\ (last.amount = 0 => last.result = <<>>)
       /\ (last.amount = 1 => last.result = <<1>>)
       /\ (last.amount = 13 => last.result = <<1, 4, 8>>)

C14_Witness ==
    /\ last.op = "get_output_split"
    /\ last.amount = 13
    /\ last.result = <<1, 4, 8>>

\* s holds the marker "P2SH:" somewhere
HasMarker(s) ==
    \E i \in 1..Len(s) :
        i + Len(Marker) - 1 <= Len(s) /\ SubSeq(s, i, i + Len(Marker) - 1) = Marker

\* how often s holds the marker (occurrences of "P2SH:" cannot overlap)
MarkerCount(s) ==
    Cardinality({i \in 1..Len(s) :
        i + Len(Marker) - 1 <= Len(s) /\ SubSeq(s, i, i + Len(Marker) - 1) = Marker})

StartsWith(s, prefix) ==
    Len(prefix) <= Len(s) /\ SubSeq(s, 1, Len(prefix)) = prefix

\* every string of the result starts with base ":" and no two are equal
TailedByBase ==
    /\ \A i \in 1..Len(last.result) :
          StartsWith(last.result[i], last.secret \o <<":">>)
    /\ \A i, j \in 1..Len(last.result) :
          i # j => last.result[i] # last.result[j]

\* the result is "0:" base, ..., "(n-1):" base
NumberedBase ==
    \A i \in 1..Len(last.result) :
        last.result[i] = <<ToString(i - 1), ":">> \o last.secret

\* C15 (the claim as stated): generate_secrets(b, n) yields n strings; for a
\* base b containing the marker "P2SH:" each starts with b ":" and they are
\* pairwise distinct; for a base without the marker they are "0:"b, ...,
\* "(n-1):"b.
C15_ExpandAnyMarkedBase ==
    last.op = "generate_secrets"
    => /\ Len(last.result) = last.n
       /\ (HasMarker(last.secret) => TailedByBase)
       /\ (~HasMarker(last.secret) => NumberedBase)

\* C15 (amended): generate_secrets(b, n) yields n strings; for a base b
\* holding the marker "P2SH:" exactly once each starts with b ":" and they
\* are pairwise distinct; for a base without the marker they are "0:"b, ...,
\* "(n-1):"b.
C15_ExpandOnceMarkedBase ==
    last.op = "generate_secrets"
    => /\ Len(last.result) = last.n
       /\ (MarkerCount(last.secret) = 1 => TailedByBase)
       /\ (~HasMarker(last.secret) => NumberedBase)

C15_Witness ==
    /\ last.op = "generate_secrets"
    /\ MarkerCount(last.secret) = 1
    /\ ~StartsWith(last.secret, Marker)
    /\ last.n >= 2
    /\ Len(last.result) = last.n

\* the inputs of the running split whose row has left the store
InputsInvalidated ==
    {i \in 1..Len(last.ins) :
        /\ last.ins[i].secret \notin SecretSet(db.proofs)
        /\ last.ins[i].secret \in db.used}

\* C16: in Wallet.split every new proof is written to the store before any
\* input proof is invalidated there: in every intermediate state of a split,
\* also when it is interrupted or a store write fails, if some input proof is
\* invalidated in the store then all new proofs of the split are in the store.
C16_StoreBeforeInvalidate ==
    (last.op = "split_steps" /\ InputsInvalidated # {})
    => \A n \in 1..Len(last.new) : last.new[n] \in Range(db.proofs)

\* the same, for the new proofs that do not carry the secret of an input
StoreBeforeInvalidateFreshSecrets ==
    (last.op = "split_steps" /\ InputsInvalidated # {})
    => \A n \in 1..Len(last.new) :
          last.new[n].secret \notin SecretSet(last.ins)
          => last.new[n] \in Range(db.proofs)

\* a split stopped between the invalidation of its first and second input
C16_Witness ==
    /\ last.op = "split_steps"
    /\ last.status = "stopped"
    /\ InputsInvalidated # {}
    /\ InputsInvalidated # 1..Len(last.ins)
    /\ Len(last.new) >= 2

\* a split that ran to its end left what Wallet.split leaves
StepsAgree ==
    (last.op = "split_steps" /\ last.status = "returned")
    => /\ db = invalidate_all(store_proofs(last.pre.db, last.new), last.ins)
       /\ proofs = WithoutSecrets(last.pre.proofs, last.ins) \o last.new

\* the proof p is built from the i-th submitted secret and blinding factor
BuiltFrom(p, i) ==
    /\ p.secret = last.secrets[i]
    /\ p.C.Y = last.secrets[i]
    /\ p.C.blinded = last.rs[i]
    /\ p.C.unblinded = last.rs[i]

\* the pairing C17 describes, of the last LedgerAPI.split
PairingKept ==
    /\ \A i \in 1..Len(last.result.fst) :
          /\ i <= Len(last.keep_amts)
          /\ BuiltFrom(last.result.fst[i], i)
          /\ last.result.fst[i].amount = last.keep_amts[i]
    /\ \A j \in 1..Len(last.result.snd) :
          /\ j <= Len(last.send_amts)
          /\ BuiltFrom(last.result.snd[j], Len(last.keep_amts) + j)
          /\ last.result.snd[j].amount = last.send_amts[j]
    /\ last.scnd # <<>>
       => /\ \A j \in 1..Len(last.result.snd) :
                \/ /\ MarkerCount(last.scnd[1]) = 1
                   /\ StartsWith(last.result.snd[j].secret, last.scnd[1] \o <<":">>)
                \/ /\ MarkerCount(last.scnd[1]) # 1
                   /\ last.result.snd[j].secret
                        = <<ToString(j - 1), ":">> \o last.scnd[1]
          /\ \A i \in 1..Len(last.result.fst) :
                /\ ~StartsWith(last.result.fst[i].secret, last.scnd[1] \o <<":">>)
                /\ \A j \in 1..Len(last.send_amts) :
                      last.result.fst[i].secret # <<ToString(j - 1), ":">> \o last.scnd[1]

\* the mint signed every output and returned the keep outputs as fst
HonestPiles ==
    /\ last.resp.m = Len(last.secrets)
    /\ last.resp.k = Len(last.keep_amts)

\* C17 (the claim as stated): in split the i-th keep proof is built from the
\* i-th submitted secret and blinding factor and has the i-th keep amount,
\* the j-th send proof is built from the secret and blinding factor at
\* position |keep_amts| + j and has the j-th send amount; with a send secret,
\* the send proofs carry the strings of generate_secrets and no keep proof
\* carries one of them.
C17_PairingKept ==
    last.op = "ledger_split" => PairingKept

\* C17 (amended): the same, when the mint signs every output and returns the
\* signatures of the keep outputs as fst and those of the send outputs as snd.
C17_PairingKeptWhenPilesHonest ==
    (last.op = "ledger_split" /\ HonestPiles)
    => /\ PairingKept
       /\ Len(last.result.fst) = Len(last.keep_amts)
       /\ Len(last.result.snd) = Len(last.send_amts)

\* a split with a send secret, a keep pile and a send pile of two proofs
C17_Witness ==
    /\ last.op = "ledger_split"
    /\ HonestPiles
    /\ last.scnd # <<>>
    /\ last.result.fst # <<>>
    /\ Len(last.result.snd) >= 1
    /\ Len(last.secrets) >= 2

\* what the mirror claim compares: secret, amount and reserved flag
Face(p) == [secret |-> p.secret, amount |-> p.amount, reserved |-> p.reserved]

Faces(ps) == {Face(ps[i]) : i \in 1..Len(ps)}

\* C18 (the claim as stated): from a wallet whose memory was loaded with
\* load_proofs, after every completed mint, split, split_to_send, invalidate,
\* pay_lightning and set_reserved, the in-memory proofs and the store's live
\* proofs are the same set of secrets with the same amounts and reserved
\* flags.
C18_MemoryMirrorsStore ==
    Faces(proofs) = Faces(db.proofs)

\* the task t has sent its /mint request
Posted(t) == \E n \in 1..Len(last.posted) : last.posted[n].task = t

\* the tasks t and u proposed a common secret
ShareSecret(t, u) ==
    Range(last.task[t].secrets) \cap Range(last.task[u].secrets) # {}

\* C19: without serialization the secret_used check is open to a race: two
\* mint calls on one wallet that interleave at their awaited store operations
\* and propose the same secret can both pass _check_used_secrets and submit
\* it; when the second call starts after the first has stored its proofs, the
\* second is rejected with the secret-reuse error.  As an invariant: two
\* calls that both submitted a common secret were interleaved, and a call that
\* started after a call that stored a secret it proposes never submits and
\* ends with the secret-reuse error.
C19_RaceOnlyWhenInterleaved ==
    last.op = "tasks"
    => \A t, u \in Tasks :
         t # u
         => /\ (Posted(t) /\ Posted(u) /\ ShareSecret(t, u))
               => (t \notin last.task[u].after /\ u \notin last.task[t].after)
            /\ (t \in last.task[u].after /\ ShareSecret(t, u))
               => /\ ~Posted(u)
                  /\ last.task[u].pc \in {"check", "raised"}
                  /\ last.task[u].pc = "raised"
                       => last.task[u].outcome = "secret_used"

\* both interleaved calls submitted the same secret and both stored a proof
\* that carries it
C19_Witness ==
    /\ last.op = "tasks"
    /\ Posted("a")
    /\ Posted("b")
    /\ ShareSecret("a", "b")
    /\ last.task["a"].pc = "done"
    /\ last.task["b"].pc = "done"

\* a call that started after the other had stored was rejected
SequentialRejected ==
    /\ last.op = "tasks"
    /\ \E t, u \in Tasks :
         /\ t \in last.task[u].after
         /\ ShareSecret(t, u)
         /\ last.task[u].outcome = "secret_used"

=============================================================================
